---- MODULE Spec2Model ----
(***************************************************************************)
(* A model of wattpad_scraper's acquisition-and-assembly pipeline:         *)
(*   models/__init__.py     Chapter, get_chapters, Book                     *)
(*   wattpad_downloader.py  Wattpad.get_book_by_url                         *)
(*   utils/parse_content.py raw_content, parse_content                      *)
(*   utils/save_books.py    TempImage, download_image, get_location,        *)
(*                          create_epub, BookPDF, create_pdf, create_txt,   *)
(*                          create_webpage                                  *)
(* One behaviour is one caller thread that builds a Book and runs one      *)
(* operation on it, together with the worker threads of the pools that     *)
(* operation starts.                                                        *)
(***************************************************************************)
EXTENDS Integers, Sequences, FiniteSets, Bags, TLC

\* ---------------------------------------------------------------- bounds
\* Longest table of contents of a landing page.
MaxChapters == 2
\* Largest configured worker-pool size (WATTPAD_MAX_WORKERS).
MaxWorkers == 2
\* Longest chapter fragment (top-level nodes) handed to parse_content in SpecParse.
MaxNodes == 3
\* Most landing-page requests of one Work followed in SpecReads.
MaxDiscoveries == 2

\* ------------------------------------------------------------ data model
\* Python's None and a present value.
None == [some |-> FALSE, val |-> <<>>]
Some(v) == [some |-> TRUE, val |-> v]

Range(s) == {s[i] : i \in 1..Len(s)}

main_url == "https://www.wattpad.com"

\* A locator: origin "" is a relative href ("/<path>"); path 0 is the work's
\* landing page, path p > 0 is "<p>-<slug>", the page of part p.
Url(origin, path) == [origin |-> origin, path |-> path]
WorkUrl == Url(main_url, 0)
CoverUrl == "cover"
ImgUrls == {"u1", "u2"}

\* Text as the page holds it: padded with white space and/or holding a line break.
Text(t, pad, nl) == [t |-> t, pad |-> pad, nl |-> nl]
\* str.strip() and str.replace('\n', ' ').
strip(s) == [s EXCEPT !.pad = FALSE]
replace_newline(s) == [s EXCEPT !.nl = FALSE]

\* The top-level nodes of a chapter fragment.
\*   "p"      an element without the image marker, val its text
\*   "image"  an element with data-media-type="image" and an <img src=val> child
\*   "noimg"  an element with data-media-type="image" and no <img> child
\*   "string" a bare string between the elements (a NavigableString)
Node(kind, val) == [kind |-> kind, val |-> val]
IsTag(n) == n.kind # "string"
HasImageMarker(n) == n.kind \in {"image", "noimg"}

\* A segment of a resolved chapter (parse_content.py ChapterPart).
ChapterPart(value, is_img) == [value |-> value, is_img |-> is_img]

\* An HTTP response: status and body.
Response(status, content) == [status_code |-> status, content |-> content]

\* Bytes of an image: what the source serves for a locator, the body of a
\* failed response, or the packaged placeholder.
ImageBytes(u) == [kind |-> "image", of |-> u]
ErrorBody(u) == [kind |-> "error", of |-> u]
PLACEHOLDER_IMG == [kind |-> "placeholder", of |-> "placeholder.jpg"]

\* ------------------------------------------------------- pure functions
\* soup.body.find_all(recursive=False): the element children, in order.
find_all(raw) == SelectSeq(raw, IsTag)

\* raw_content without the status check: the body whatever the status.  C8's
\* property fails on it.
raw_content_any_status(res) == res.content

\* parse_content.raw_content: the body of a 200 response, '' otherwise.
raw_content(res) == IF res.status_code = 200 THEN res.content ELSE <<>>

\* parse_content.parse_content on a response: [exc, val].  tag.img is None
\* for a marked element without <img>, and .attrs on it raises.
parse_content(res) ==
    LET tags == find_all(raw_content(res))
        part(tag) == IF tag.kind = "image"
                     THEN ChapterPart(tag.val, TRUE)
                     ELSE ChapterPart(tag.val, FALSE)
    IN  IF \E i \in 1..Len(tags) : tags[i].kind = "noimg"
        THEN [exc |-> "AttributeError", val |-> <<>>]
        ELSE [exc |-> "None", val |-> [i \in 1..Len(tags) |-> part(tags[i])]]

\* href normalisation shared by get_chapters and get_book_by_url.
absolute(href) == IF href.origin = "" THEN Url(main_url, href.path) ELSE href

\* get_chapters numbering the entries from the end of the table of contents.
\* C13's property fails on it.
get_chapters_numbered_from_end(pg) ==
    IF ~pg.toc.some
    THEN [exc |-> "AttributeError", val |-> <<>>]
    ELSE LET lis == pg.toc.val
         IN  [exc |-> "None",
              val |-> [i \in 1..Len(lis) |->
                         [url |-> absolute(lis[i].href),
                          title |-> replace_newline(strip(lis[i].text)),
                          number |-> Len(lis) - i]]]

\* get_chapters taking a missing table of contents for an empty one.  C12's
\* property fails on it.
get_chapters_empty_without_toc(pg) ==
    LET lis == IF pg.toc.some THEN pg.toc.val ELSE <<>>
    IN  [exc |-> "None",
         val |-> [i \in 1..Len(lis) |->
                    [url |-> absolute(lis[i].href),
                     title |-> replace_newline(strip(lis[i].text)),
                     number |-> i - 1]]]

\* get_chapters with every Chapter left at the constructor's default number.
\* C10's property fails on it.
get_chapters_default_number(pg) ==
    IF ~pg.toc.some
    THEN [exc |-> "AttributeError", val |-> <<>>]
    ELSE LET lis == pg.toc.val
         IN  [exc |-> "None",
              val |-> [i \in 1..Len(lis) |->
                         [url |-> absolute(lis[i].href),
                          title |-> replace_newline(strip(lis[i].text)),
                          number |-> 0]]]

\* models.get_chapters on a landing page: [exc, val].  soup.find returns None
\* without a table of contents and toc.find_all raises.
get_chapters(pg) ==
    IF ~pg.toc.some
    THEN [exc |-> "AttributeError", val |-> <<>>]
    ELSE LET lis == pg.toc.val
         IN  [exc |-> "None",
              val |-> [i \in 1..Len(lis) |->
                         [url |-> absolute(lis[i].href),
                          title |-> replace_newline(strip(lis[i].text)),
                          number |-> i - 1]]]

\* Wattpad.get_book_by_url on a landing page: [exc, url, chapters].  The loop
\* over the table of contents reuses the name url, which is what Book gets.
get_book_by_url(u, pg) ==
    IF ~pg.toc.some
    THEN [exc |-> "Exception", url |-> u, chapters |-> <<>>]
    ELSE LET lis == pg.toc.val
             chs == [i \in 1..Len(lis) |->
                       [url |-> absolute(lis[i].href),
                        title |-> replace_newline(strip(lis[i].text)),
                        number |-> i]]
         IN  [exc |-> "None",
              url |-> IF Len(lis) = 0 THEN u ELSE chs[Len(lis)].url,
              chapters |-> chs]

\* ----------------------------------------------------------------- state
VARIABLES
    page,           \* the landing page the source serves: [toc]
    env,            \* os.environ["WATTPAD_MAX_WORKERS"]: None or Some(int)
    TOTAL_WORKERS,  \* helper_functions.TOTAL_WORKERS[0]
    pc,             \* position of the caller thread
    op,             \* the running operation: [name, loc, overwrite, existed]
    url,            \* Book.url
    _chapters,      \* Book._chapters: None or Some(list of Chapter)
    _content,       \* Chapter._content, by position in the list
    _raw_content,   \* Chapter._raw_content, by position in the list
    chapter,        \* the comprehension variable the batch's lambdas close over
    tasks,          \* the work items of the live ThreadPoolExecutor
    k,              \* the assembler's position in its chapter loop
    ebook,          \* the EpubBook under construction
    timg,           \* the TempImage: [paths, path_map]
    pdf,            \* the pages of the BookPDF
    txt,            \* create_txt's content string, as lines
    fs,             \* the files the run has looked at or written
    err,            \* the exception the operation raised to its caller
    ret,            \* the operation's return value
    last,           \* the last response parsed by the caller and its result
    discoveries     \* the requests sent for the landing page so far

vars == <<page, env, TOTAL_WORKERS, pc, op, url, _chapters, _content,
          _raw_content, chapter, tasks, k, ebook, timg, pdf, txt, fs, err,
          ret, last, discoveries>>

\* A landing page whose table of contents lists parts n, n-1, .., 1; the odd
\* parts by a relative href.
RunToc(n) == [i \in 1..n |->
                [href |-> Url(IF (n + 1 - i) % 2 = 1 THEN "" ELSE main_url, n + 1 - i),
                 text |-> Text(n + 1 - i, FALSE, FALSE)]]
RunPages == {[toc |-> None]} \cup {[toc |-> Some(RunToc(n))] : n \in 0..MaxChapters}

\* What the storytext endpoint may answer in an assembly run.
RunResponses ==
    { Response(404, <<Node("p", "Not Found")>>),
      Response(200, <<Node("image", "u1"), Node("p", "t"), Node("image", "u2")>>),
      Response(200, <<Node("noimg", "")>>) }

NoTasks == <<>>
EmptyBook == [cover |-> None, items |-> EmptyBag, chapters |-> <<>>]
EmptyTimg == [paths |-> {}, path_map |-> <<>>]
NoLast == [res |-> Response(0, <<>>), out |-> [exc |-> "None", val |-> <<>>]]

InitRest ==
    /\ TOTAL_WORKERS = None
    /\ pc = "new"
    /\ op = [name |-> "None",
              loc |-> [kind |-> "None", path |-> [dir |-> "", name |-> "loc", uuid |-> 0]],
              overwrite |-> TRUE, existed |-> FALSE]
    /\ url = WorkUrl
    /\ _chapters = None
    /\ _content = <<>>
    /\ _raw_content = <<>>
    /\ chapter = 0
    /\ tasks = NoTasks
    /\ k = 0
    /\ ebook = EmptyBook
    /\ timg = EmptyTimg
    /\ pdf = <<>>
    /\ txt = <<>>
    /\ fs = <<>>
    /\ err = "None"
    /\ ret = None
    /\ last = NoLast
    /\ discoveries = 0

Init ==
    /\ page \in RunPages
    /\ env \in {None} \cup {Some(w) : w \in 1..MaxWorkers}
    /\ InitRest

N == Len(_chapters.val)

\* helper_functions.get_workers: the cached count, else the environment's,
\* else 10; the value is cached.
DEFAULT_WORKERS == 10
get_workers ==
    IF TOTAL_WORKERS.some THEN TOTAL_WORKERS.val
    ELSE IF env.some THEN env.val ELSE DEFAULT_WORKERS

\* -------------------------------------------------------- construction
\* Wattpad.get_book_by_url(WorkUrl).
GetBookByUrl ==
    /\ pc = "new"
    /\ LET b == get_book_by_url(WorkUrl, page)
       IN  IF b.exc # "None"
           THEN /\ pc' = "raised"
                /\ err' = b.exc
                /\ UNCHANGED <<url, _chapters, _content, _raw_content>>
           ELSE /\ pc' = "idle"
                /\ url' = b.url
                /\ _chapters' = Some(b.chapters)
                /\ _content' = [i \in 1..Len(b.chapters) |-> None]
                /\ _raw_content' = [i \in 1..Len(b.chapters) |-> None]
                /\ err' = err
    /\ discoveries' = discoveries + 1
    /\ UNCHANGED <<page, env, TOTAL_WORKERS, op, chapter, tasks, k, ebook,
                   timg, pdf, txt, fs, ret, last>>

\* Book.from_json(record of the same work): no chapters yet.
FromJson ==
    /\ pc = "new"
    /\ pc' = "idle"
    /\ UNCHANGED <<page, discoveries, env, TOTAL_WORKERS, op, url, _chapters, _content,
                   _raw_content, chapter, tasks, k, ebook, timg, pdf, txt,
                   fs, err, ret, last>>

\* ------------------------------------------------------------ the caller
Formats == {"create_epub", "create_pdf", "create_txt", "create_webpage"}
Batches == {"chapters_with_content", "chapters_with_raw_content"}
\* A destination: none given, an existing directory, or a file path.
\* A path: directory, file name and, for a staged image, the uuid in its name.
Path(dir, name) == [dir |-> dir, name |-> name, uuid |-> 0]
UserFile == Path("", "loc")
LocNone == [kind |-> "None", path |-> UserFile]
LocDir == [kind |-> "dir", path |-> UserFile]
LocFile(p) == [kind |-> "file", path |-> p]
Locs == {LocNone, LocDir, LocFile(UserFile)}

\* ------------------------------------------------------- the file system
Absent == [kind |-> "absent"]
OldFile == [kind |-> "old"]

\* The file system as far as the run has looked: a path the run sees for the
\* first time holds an earlier file (e) or nothing.
LookAt(files, p, e) ==
    IF p \in DOMAIN files THEN files
    ELSE files @@ (p :> IF e THEN OldFile ELSE Absent)

exists(files, p) == p \in DOMAIN files /\ files[p].kind # "absent"

\* save_books.get_location: title.ext in the working directory or in the
\* directory loc, else loc itself; FileExistsError when that exists and
\* overwrite is off.  [exc, loc].
filename(loc, ext) ==
    CASE loc.kind = "None" -> Path("cwd", ext)
      [] loc.kind = "dir" -> Path("dir", ext)
      [] OTHER -> loc.path

\* get_location without the existence check.  C1's property fails on it.
get_location_unchecked(loc, ext, overwrite, files) ==
    [exc |-> "None", loc |-> filename(loc, ext)]

get_location(loc, ext, overwrite, files) ==
    [exc |-> IF exists(files, filename(loc, ext)) /\ ~overwrite
             THEN "FileExistsError" ELSE "None",
     loc |-> filename(loc, ext)]

\* Which cache the batch of the running operation fills.
BatchKind ==
    IF op.name \in {"create_epub", "chapters_with_raw_content"}
    THEN "raw" ELSE "content"

\* create_txt's header line.
TxtHeader == [kind |-> "header", val |-> "title by author description"]

\* TempImage.__init__: the staging directory exists afterwards.
TempDir == Path("cwd", "temp_imgs")
TempImage_init(files) ==
    IF TempDir \in DOMAIN files THEN files ELSE files @@ (TempDir :> [kind |-> "dir"])

\* The extension of each format's output.
Ext(name) ==
    CASE name = "create_epub" -> "epub"
      [] name = "create_pdf" -> "pdf"
      [] name = "create_txt" -> "txt"
      [] OTHER -> "html"

\* The operation name(loc, overwrite) begins, its destination file existing
\* already (e) or not.
Create(name, loc, ow, e) ==
    /\ op' = [name |-> name, loc |-> loc, overwrite |-> ow, existed |-> e]
    /\ pc' = CASE name = "create_epub" -> "epub_cover"
               [] name = "create_webpage" -> "html_location"
               [] OTHER -> "batch"
    /\ txt' = IF name = "create_txt" THEN <<TxtHeader>> ELSE txt
    /\ fs' = LET files == IF name \in Formats
                           THEN LookAt(fs, filename(loc, Ext(name)), e) ELSE fs
              IN  IF name = "create_pdf" THEN TempImage_init(files) ELSE files
    /\ UNCHANGED <<page, discoveries, env, TOTAL_WORKERS, url, _chapters, _content,
                   _raw_content, chapter, tasks, k, ebook, timg, pdf, err,
                   ret, last>>

\* The caller starts one operation on the book: a batch, or an assembly with
\* a destination and an overwrite flag, whose destination file exists already
\* (e) or does not.
Call ==
    /\ pc = "idle"
    /\ \E name \in Formats \cup Batches, loc \in Locs, ow \in BOOLEAN, e \in BOOLEAN :
         /\ name \in Batches => (loc = LocNone /\ ow /\ ~e)
         /\ Create(name, loc, ow, e)

\* What Book.save may be given: nothing, a format tag, a path ending in a
\* supported extension, an existing directory, or anything else.
SaveTarget(kind, frm) == [kind |-> kind, frm |-> frm]
supported_formats == {"epub", "pdf", "txt", "html"}
SaveTargets ==
    {SaveTarget("None", ""), SaveTarget("dir", ""), SaveTarget("other", "")}
        \cup {SaveTarget(kd, frm) : kd \in {"tag", "ext"}, frm \in supported_formats}

\* The method that writes a format (create_html is create_webpage).
create_(frm) ==
    CASE frm = "epub" -> "create_epub"
      [] frm = "pdf" -> "create_pdf"
      [] frm = "txt" -> "create_txt"
      [] OTHER -> "create_webpage"

\* Book.save that hands every remaining target to create_epub, without the
\* directory test.  C17's property fails on it.
save_epub_fallback(target) ==
    CASE target.kind = "None" -> [exc |-> "None", name |-> "create_epub", loc |-> LocNone]
      [] target.kind = "tag" -> [exc |-> "None", name |-> create_(target.frm), loc |-> LocNone]
      [] target.kind = "ext" ->
           [exc |-> "None", name |-> create_(target.frm), loc |-> LocFile(UserFile)]
      [] target.kind = "dir" -> [exc |-> "None", name |-> "create_epub", loc |-> LocDir]
      [] OTHER -> [exc |-> "None", name |-> "create_epub", loc |-> LocFile(UserFile)]

\* Book.save's dispatch: [exc, name, loc], the operation it calls and with
\* which loc, or ValueError.
save(target) ==
    CASE target.kind = "None" -> [exc |-> "None", name |-> "create_epub", loc |-> LocNone]
      [] target.kind = "tag" -> [exc |-> "None", name |-> create_(target.frm), loc |-> LocNone]
      [] target.kind = "ext" ->
           [exc |-> "None", name |-> create_(target.frm), loc |-> LocFile(UserFile)]
      [] target.kind = "dir" -> [exc |-> "None", name |-> "create_epub", loc |-> LocDir]
      [] OTHER -> [exc |-> "ValueError", name |-> "save", loc |-> LocFile(UserFile)]

\* The caller calls book.save(target, overwrite).
SaveWith(target, ow, e) ==
    /\ pc = "idle"
    /\ IF save(target).exc # "None"
       THEN /\ ~e
            /\ pc' = "raised"
            /\ err' = save(target).exc
            /\ op' = [name |-> "save", loc |-> save(target).loc,
                      overwrite |-> ow, existed |-> FALSE]
            /\ UNCHANGED <<page, discoveries, env, TOTAL_WORKERS, url, _chapters, _content,
                           _raw_content, chapter, tasks, k, ebook, timg, pdf,
                           txt, fs, ret, last>>
       ELSE Create(save(target).name, save(target).loc, ow, e)

Save == \E target \in SaveTargets, ow \in BOOLEAN, e \in BOOLEAN : SaveWith(target, ow, e)

\* ----------------------------------------------------- the chapter batch
\* Book.chapters_with_content / chapters_with_raw_content:
\*   with ThreadPoolExecutor(max_workers=get_workers()) as executor:
\*       futures = [executor.submit(lambda: chapter.content) for chapter in self.chapters]
\*       cf.wait(futures)
\*   return self.chapters

\* A submitted item: the callable, its argument, how far it has run, and for
\* a lambda the Chapter it found in the comprehension variable.
NewTask(fn, arg) == [fn |-> fn, st |-> "queued", target |-> 0, arg |-> arg]
NoArg == [file_name |-> <<>>, url |-> ""]
\* A pool whose worker is lost when its item raises.  C5's property fails on it.
InFlight_worker_lost(t) == tasks[t].st \in {"running", "fetch", "raised"}
InFlight(t) == tasks[t].st \in {"running", "fetch"}
\* A wait that takes only an item that returned for finished.  C30's property
\* fails on it.
Finished_returned_only(t) == tasks[t].st = "done"
\* A future is done when its item has returned or raised.
Finished(t) == tasks[t].st \in {"done", "raised"}

\* An exit that does not wait, shutdown(wait=False).  C6's property fails on it.
executor_exit_nowait == TRUE

\* Executor.__exit__ is shutdown(wait=True): the caller leaves the with block
\* once every submitted item has run.
executor_exit == \A t \in 1..Len(tasks) : Finished(t)

\* What is left of a pool after its with block: the executor and the finished
\* futures are dropped; an item that had not finished would go on running.
leave_with(ts) == SelectSeq(ts, LAMBDA x : x.st \notin {"done", "raised"})

\* A Book.chapters that never finds its cache filled.  C22's property fails
\* on it.
chapters_cached_never == FALSE

\* Book.chapters' test: self._chapters is not None.
chapters_cached == _chapters.some

\* The executor is created and self.chapters is evaluated (Book.chapters:
\* get_chapters on first access).
BatchEnter ==
    /\ pc = "batch"
    /\ TOTAL_WORKERS' = Some(get_workers)
    /\ discoveries' = IF chapters_cached THEN discoveries ELSE discoveries + 1
    /\ IF chapters_cached
       THEN /\ pc' = "submit"
            /\ UNCHANGED <<_chapters, _content, _raw_content, err>>
       ELSE LET r == get_chapters(page)
            IN  IF r.exc # "None"
                THEN /\ pc' = "raised"
                     /\ err' = r.exc
                     /\ UNCHANGED <<_chapters, _content, _raw_content>>
                ELSE /\ pc' = "submit"
                     /\ _chapters' = Some(r.val)
                     /\ _content' = [i \in 1..Len(r.val) |-> None]
                     /\ _raw_content' = [i \in 1..Len(r.val) |-> None]
                     /\ err' = err
    /\ chapter' = 0
    /\ tasks' = NoTasks
    /\ UNCHANGED <<page, env, op, url, k, ebook, timg, pdf, txt, fs, ret, last>>

\* One round of the comprehension: chapter is rebound to the next Chapter and
\* a lambda closing over the variable (not over its value) is submitted.
BatchSubmit ==
    /\ pc = "submit"
    /\ Len(tasks) < N
    /\ chapter' = Len(tasks) + 1
    /\ tasks' = Append(tasks, NewTask("lambda", NoArg))
    /\ UNCHANGED <<page, discoveries, env, TOTAL_WORKERS, pc, op, url, _chapters, _content,
                   _raw_content, k, ebook, timg, pdf, txt, fs, err, ret, last>>

\* A create_txt that goes on to stage the chapters' images as create_pdf
\* does.  C15's property fails on it.
AfterBatch_txt_stages_images ==
    CASE op.name \in Batches -> "returned"
      [] op.name = "create_epub" -> "epub_chapter"
      [] OTHER -> "pdf_collect"

\* Where the running operation continues after its batch.
AfterBatch ==
    CASE op.name \in Batches -> "returned"
      [] op.name = "create_epub" -> "epub_chapter"
      [] op.name = "create_pdf" -> "pdf_collect"
      [] OTHER -> "txt_chapter"

\* cf.wait(futures), the end of the with block, return self.chapters.
BatchReturn ==
    /\ pc = "submit"
    /\ Len(tasks) = N
    /\ executor_exit
    /\ pc' = AfterBatch
    /\ tasks' = leave_with(tasks)
    /\ k' = 1
    /\ ret' = IF op.name \in Batches THEN Some("chapters") ELSE ret
    /\ UNCHANGED <<page, discoveries, env, TOTAL_WORKERS, op, url, _chapters, _content,
                   _raw_content, chapter, ebook, timg, pdf, txt, fs, err, last>>

\* The pool size of the live executor.
max_workers == TOTAL_WORKERS.val

\* A worker takes the oldest queued item when fewer than max_workers run.
CanStart(t, size) ==
    /\ t \in 1..Len(tasks)
    /\ tasks[t].st = "queued"
    /\ \A s \in 1..(t - 1) : tasks[s].st # "queued"
    /\ Cardinality({s \in 1..Len(tasks) : InFlight(s)}) < size

\* The lambda starts: it reads the comprehension variable as it is now.
lambda_chapter == chapter

LambdaStart(t) ==
    /\ CanStart(t, max_workers)
    /\ tasks[t].fn = "lambda"
    /\ tasks' = [tasks EXCEPT ![t].st = "running", ![t].target = lambda_chapter]
    /\ UNCHANGED <<page, discoveries, env, TOTAL_WORKERS, pc, op, url, _chapters, _content,
                   _raw_content, chapter, k, ebook, timg, pdf, txt, fs, err,
                   ret, last>>

Cache(kind) == IF kind = "raw" THEN _raw_content ELSE _content

\* A Chapter.content that waits while another item is resolving the same
\* chapter.  C26's property fails on it.
LambdaCheck_locked(t) ==
    /\ t \in 1..Len(tasks)
    /\ tasks[t].fn = "lambda"
    /\ tasks[t].st = "running"
    /\ ~\E s \in 1..Len(tasks) :
          s # t /\ tasks[s].st = "fetch" /\ tasks[s].target = tasks[t].target
    /\ tasks' = [tasks EXCEPT ![t].st =
                    IF Cache(BatchKind)[tasks[t].target].some THEN "done" ELSE "fetch"]
    /\ UNCHANGED <<page, discoveries, env, TOTAL_WORKERS, pc, op, url, _chapters, _content,
                   _raw_content, chapter, k, ebook, timg, pdf, txt, fs, err,
                   ret, last>>

\* Chapter.content / Chapter.raw_content, first half: the cache is read; a
\* filled cache is returned, an empty one sends the storytext request.
LambdaCheck(t) ==
    /\ t \in 1..Len(tasks)
    /\ tasks[t].fn = "lambda"
    /\ tasks[t].st = "running"
    /\ tasks' = [tasks EXCEPT ![t].st =
                    IF Cache(BatchKind)[tasks[t].target].some THEN "done" ELSE "fetch"]
    /\ UNCHANGED <<page, discoveries, env, TOTAL_WORKERS, pc, op, url, _chapters, _content,
                   _raw_content, chapter, k, ebook, timg, pdf, txt, fs, err,
                   ret, last>>

\* Chapter.content / Chapter.raw_content, second half: the response arrives,
\* is parsed, and the result is stored; an exception ends the item and stays
\* in its future.
LambdaReturnWith(t, res) ==
    /\ t \in 1..Len(tasks)
    /\ tasks[t].fn = "lambda"
    /\ tasks[t].st = "fetch"
    /\ IF BatchKind = "raw"
       THEN /\ _raw_content' = [_raw_content EXCEPT ![tasks[t].target] = Some(raw_content(res))]
            /\ tasks' = [tasks EXCEPT ![t].st = "done"]
            /\ UNCHANGED _content
       ELSE LET r == parse_content(res)
            IN  IF r.exc # "None"
                THEN /\ tasks' = [tasks EXCEPT ![t].st = "raised"]
                     /\ UNCHANGED <<_content, _raw_content>>
                ELSE /\ _content' = [_content EXCEPT ![tasks[t].target] = Some(r.val)]
                     /\ tasks' = [tasks EXCEPT ![t].st = "done"]
                     /\ UNCHANGED _raw_content
    /\ UNCHANGED <<page, discoveries, env, TOTAL_WORKERS, pc, op, url, _chapters, chapter,
                   k, ebook, timg, pdf, txt, fs, err, ret, last>>

LambdaReturn(t) == \E res \in RunResponses : LambdaReturnWith(t, res)

\* ------------------------------------------------------------ create_txt
\* Chapter.content read by the caller: [exc, cache].
Chapter_content(cache, res) ==
    IF cache.some THEN [exc |-> "None", cache |-> cache]
    ELSE LET r == parse_content(res)
         IN  IF r.exc # "None" THEN [exc |-> r.exc, cache |-> cache]
             ELSE [exc |-> "None", cache |-> Some(r.val)]

\* Chapter.raw_content read by the caller: the cache afterwards.
Chapter_raw_content(cache, res) ==
    IF cache.some THEN cache ELSE Some(raw_content(res))

\* A segment written as its string whatever its kind.  C14's property fails
\* on it.
txt_part_unmarked(part) == [kind |-> "text", val |-> part.value]

\* The lines create_txt adds for one chapter.
txt_part(part) ==
    IF part.is_img THEN [kind |-> "IMAGE", val |-> part.value]
    ELSE [kind |-> "text", val |-> part.value]
txt_chapter(title, texts) ==
    <<[kind |-> "title", val |-> title]>> \o [i \in 1..Len(texts) |-> txt_part(texts[i])]

\* One round of create_txt's chapter loop.
TxtChapterWith(res) ==
    /\ pc = "txt_chapter"
    /\ k <= N
    /\ LET r == Chapter_content(_content[k], res)
       IN  IF r.exc # "None"
           THEN /\ pc' = "raised"
                /\ err' = r.exc
                /\ UNCHANGED <<_content, txt, k>>
           ELSE /\ _content' = [_content EXCEPT ![k] = r.cache]
                /\ txt' = txt \o txt_chapter(_chapters.val[k].title, r.cache.val)
                /\ k' = k + 1
                /\ UNCHANGED <<pc, err>>
    /\ UNCHANGED <<page, discoveries, env, TOTAL_WORKERS, op, url, _chapters, _raw_content,
                   chapter, tasks, ebook, timg, pdf, fs, ret, last>>

TxtChapter == \E res \in RunResponses : TxtChapterWith(res)

\* create_webpage calls book.create_txt(txt_location): overwrite is its default.
TxtLoc == IF op.name = "create_webpage"
          THEN LocFile(filename(op.loc, "txt")) ELSE op.loc
TxtOverwrite == IF op.name = "create_webpage" THEN TRUE ELSE op.overwrite

\* get_location, open(location, "w"), write.
TxtSave ==
    /\ pc = "txt_chapter"
    /\ k > N
    /\ \E e \in BOOLEAN :
         LET files == LookAt(fs, filename(TxtLoc, "txt"), e)
             r == get_location(TxtLoc, "txt", TxtOverwrite, files)
         IN  IF r.exc # "None"
             THEN /\ pc' = "raised"
                  /\ err' = r.exc
                  /\ fs' = files
                  /\ ret' = ret
             ELSE /\ fs' = [files EXCEPT ![r.loc] = [kind |-> "txt", body |-> txt]]
                  /\ err' = err
                  /\ IF op.name = "create_webpage"
                     THEN pc' = "html_write" /\ ret' = ret
                     ELSE pc' = "returned" /\ ret' = Some(r.loc)
    /\ UNCHANGED <<page, discoveries, env, TOTAL_WORKERS, op, url, _chapters, _content,
                   _raw_content, chapter, tasks, k, ebook, timg, pdf, txt, last>>

\* -------------------------------------------------------- create_webpage
\* location = get_location(loc, book.title, "html", overwrite)
HtmlLocation ==
    /\ pc = "html_location"
    /\ \E e \in BOOLEAN :
         LET files == LookAt(fs, filename(op.loc, "html"), e)
             r == get_location(op.loc, "html", op.overwrite, files)
         IN  /\ fs' = files
             /\ IF r.exc # "None"
                THEN pc' = "raised" /\ err' = r.exc
                ELSE pc' = "html_txt_location" /\ err' = err
    /\ UNCHANGED <<page, discoveries, env, TOTAL_WORKERS, op, url, _chapters, _content,
                   _raw_content, chapter, tasks, k, ebook, timg, pdf, txt,
                   ret, last>>

\* txt_location = get_location(loc, book.title, "txt", overwrite), and
\* book.create_txt(txt_location) begins.
HtmlTxtLocation ==
    /\ pc = "html_txt_location"
    /\ \E e \in BOOLEAN :
         LET files == LookAt(fs, filename(op.loc, "txt"), e)
             r == get_location(op.loc, "txt", op.overwrite, files)
         IN  /\ fs' = files
             /\ IF r.exc # "None"
                THEN pc' = "raised" /\ err' = r.exc /\ txt' = txt
                ELSE pc' = "batch" /\ err' = err /\ txt' = <<TxtHeader>>
    /\ UNCHANGED <<page, discoveries, env, TOTAL_WORKERS, op, url, _chapters, _content,
                   _raw_content, chapter, tasks, k, ebook, timg, pdf, ret, last>>

\* The text file is read back and wrapped into the page written to location.
HtmlWrite ==
    /\ pc = "html_write"
    /\ fs' = [fs EXCEPT ![filename(op.loc, "html")] =
                [kind |-> "html", body |-> fs[filename(op.loc, "txt")].body]]
    /\ pc' = "returned"
    /\ ret' = Some(filename(op.loc, "html"))
    /\ UNCHANGED <<page, discoveries, env, TOTAL_WORKERS, op, url, _chapters, _content,
                   _raw_content, chapter, tasks, k, ebook, timg, pdf, txt,
                   err, last>>

\* ----------------------------------------------------------- create_epub
\* What the asset host may answer for an image locator.
ImageResponses(u) == {Response(200, ImageBytes(u)), Response(404, ErrorBody(u))}

\* The cover of the package: the fetched bytes, or the placeholder.
epub_cover(res) == IF res.status_code = 200 THEN res.content ELSE PLACEHOLDER_IMG

\* The cover is fetched and set, and the about page is added.
EpubCover ==
    /\ pc = "epub_cover"
    /\ \E res \in ImageResponses(CoverUrl) :
         ebook' = [ebook EXCEPT !.cover = Some(epub_cover(res))]
    /\ pc' = "batch"
    /\ UNCHANGED <<page, discoveries, env, TOTAL_WORKERS, op, url, _chapters, _content,
                   _raw_content, chapter, tasks, k, timg, pdf, txt, fs, err,
                   ret, last>>

\* The local name of the chapter's img_no-th image: "<number>_<img_no>.jpg".
img_file_name(number, img_no) == <<number, img_no>>

\* The number of marked elements among the first i tags.
RECURSIVE img_count(_, _)
img_count(tags, i) ==
    IF i = 0 THEN 0
    ELSE img_count(tags, i - 1) + (IF HasImageMarker(tags[i]) THEN 1 ELSE 0)

\* The chapter document's body: every tag in order, a marked one with its
\* img src rewritten to the local name.
epub_content(number, tags) ==
    [i \in 1..Len(tags) |->
        IF HasImageMarker(tags[i])
        THEN Node("image", img_file_name(number, img_count(tags, i) - 1))
        ELSE tags[i]]

\* imgs: the (file_name, img_url) pairs of the chapter, in order.
epub_imgs(number, tags) ==
    LET marked == SelectSeq(tags, HasImageMarker)
    IN  [j \in 1..Len(marked) |->
           [file_name |-> img_file_name(number, j - 1), url |-> marked[j].val]]

\* download_image without the placeholder: the body whatever the status.
\* C4's property fails on it.
download_image_any_status(img_file_name_, res) ==
    [file_name |-> img_file_name_, content |-> res.content]

\* save_books.download_image: the item added to the package.
download_image(img_file_name_, res) ==
    IF res.status_code = 200
    THEN [file_name |-> img_file_name_, content |-> res.content]
    ELSE [file_name |-> img_file_name_, content |-> PLACEHOLDER_IMG]

\* One round of create_epub's chapter loop up to the submission of the
\* chapter's image downloads.  tag.find('img') is None for a marked element
\* without <img>, and img['src'] raises.
EpubChapterWith(res) ==
    /\ pc = "epub_chapter"
    /\ k <= N
    /\ LET raw == Chapter_raw_content(_raw_content[k], res)
           tags == find_all(raw.val)
       IN  /\ _raw_content' = [_raw_content EXCEPT ![k] = raw]
           /\ IF \E i \in 1..Len(tags) : tags[i].kind = "noimg"
              THEN /\ pc' = "raised"
                   /\ err' = "TypeError"
                   /\ tasks' = tasks
              ELSE /\ pc' = "epub_images"
                   /\ err' = err
                   /\ tasks' = [j \in 1..Len(epub_imgs(_chapters.val[k].number, tags)) |->
                                  NewTask("download_image",
                                          epub_imgs(_chapters.val[k].number, tags)[j])]
    /\ UNCHANGED <<page, discoveries, env, TOTAL_WORKERS, op, url, _chapters, _content,
                   chapter, k, ebook, timg, pdf, txt, fs, ret, last>>

EpubChapter == \E res \in RunResponses : EpubChapterWith(res)

\* download_image starts on a worker: the image is requested.
ImgStart(t) ==
    /\ CanStart(t, max_workers)
    /\ tasks[t].fn = "download_image"
    /\ tasks' = [tasks EXCEPT ![t].st = "fetch"]
    /\ UNCHANGED <<page, discoveries, env, TOTAL_WORKERS, pc, op, url, _chapters, _content,
                   _raw_content, chapter, k, ebook, timg, pdf, txt, fs, err,
                   ret, last>>

\* download_image ends: the response arrives and the item is added.
ImgReturn(t) ==
    /\ t \in 1..Len(tasks)
    /\ tasks[t].fn = "download_image"
    /\ tasks[t].st = "fetch"
    /\ \E res \in ImageResponses(tasks[t].arg.url) :
         ebook' = [ebook EXCEPT !.items =
                      @ (+) SetToBag({download_image(tasks[t].arg.file_name, res)})]
    /\ tasks' = [tasks EXCEPT ![t].st = "done"]
    /\ UNCHANGED <<page, discoveries, env, TOTAL_WORKERS, pc, op, url, _chapters, _content,
                   _raw_content, chapter, k, timg, pdf, txt, fs, err, ret, last>>

\* The with block ends and the chapter document is added.
EpubAddChapter ==
    /\ pc = "epub_images"
    /\ executor_exit
    /\ ebook' = [ebook EXCEPT !.chapters =
                    Append(@, [file_name |-> _chapters.val[k].number,
                               title |-> _chapters.val[k].title,
                               content |-> epub_content(_chapters.val[k].number,
                                                        find_all(_raw_content[k].val))])]
    /\ tasks' = leave_with(tasks)
    /\ k' = k + 1
    /\ pc' = "epub_chapter"
    /\ UNCHANGED <<page, discoveries, env, TOTAL_WORKERS, op, url, _chapters, _content,
                   _raw_content, chapter, timg, pdf, txt, fs, err, ret, last>>

\* toc, ncx, nav, style and spine are set; get_location; write_epub.
EpubSave ==
    /\ pc = "epub_chapter"
    /\ k > N
    /\ \E e \in BOOLEAN :
         LET files == LookAt(fs, filename(op.loc, "epub"), e)
             r == get_location(op.loc, "epub", op.overwrite, files)
         IN  IF r.exc # "None"
             THEN /\ pc' = "raised"
                  /\ err' = r.exc
                  /\ fs' = files
                  /\ ret' = ret
             ELSE /\ fs' = [files EXCEPT ![r.loc] = [kind |-> "epub", book |-> ebook]]
                  /\ pc' = "returned"
                  /\ ret' = Some(r.loc)
                  /\ err' = err
    /\ UNCHANGED <<page, discoveries, env, TOTAL_WORKERS, op, url, _chapters, _content,
                   _raw_content, chapter, tasks, k, ebook, timg, pdf, txt, last>>

\* ------------------------------------------------------------ create_pdf
\* ThreadPoolExecutor() without max_workers: min(32, cpu_count + 4), on one CPU.
default_max_workers == 5

\* A staged file: temp_imgs/<uuid4>.jpg, the uuid of the call that staged it.
TempPath(id) == [dir |-> "temp_imgs", name |-> "jpg", uuid |-> id]

\* img_urls collected from the first chapter only.  C24's property fails on it.
img_urls_first_chapter(n) ==
    IF n = 0 THEN <<>>
    ELSE LET imgs == SelectSeq(_content[1].val, LAMBDA c : c.is_img)
         IN  [j \in 1..Len(imgs) |-> imgs[j].value]

\* img_urls: the image segments of every chapter, in chapter order.
RECURSIVE img_urls(_)
img_urls(n) ==
    IF n = 0 THEN <<>>
    ELSE img_urls(n - 1) \o
         LET imgs == SelectSeq(_content[n].val, LAMBDA c : c.is_img)
         IN  [j \in 1..Len(imgs) |-> imgs[j].value]

\* TempImage.get_path(url) with uuid id, on the response: the file written and
\* the TempImage afterwards.  The status is not looked at.
get_path_file(res) == [kind |-> "jpg", content |-> res.content]
get_path_timg(tm, u, id) ==
    [paths |-> tm.paths \cup {TempPath(id)},
     path_map |-> (u :> TempPath(id)) @@ tm.path_map]

\* TempImage.cleanup: every path of self.paths is removed.
cleanup(files, tm) ==
    [p \in DOMAIN files |-> IF p \in tm.paths THEN Absent ELSE files[p]]

\* FPDF.image(path): the file must hold an image.
image_ok(files, p) == files[p].content.kind = "image"

\* create_pdf's first loop: chapter.content of each chapter is read.
PdfCollectWith(res) ==
    /\ pc = "pdf_collect"
    /\ k <= N
    /\ LET r == Chapter_content(_content[k], res)
       IN  IF r.exc # "None"
           THEN /\ pc' = "raised"
                /\ err' = r.exc
                /\ UNCHANGED <<_content, k>>
           ELSE /\ _content' = [_content EXCEPT ![k] = r.cache]
                /\ k' = k + 1
                /\ UNCHANGED <<pc, err>>
    /\ UNCHANGED <<page, discoveries, env, TOTAL_WORKERS, op, url, _chapters, _raw_content,
                   chapter, tasks, ebook, timg, pdf, txt, fs, ret, last>>

PdfCollect == \E res \in RunResponses : PdfCollectWith(res)

\* timg.get_paths(img_urls): executor.map submits get_path for every url.
PdfGetPaths ==
    /\ pc = "pdf_collect"
    /\ k > N
    /\ tasks' = [j \in 1..Len(img_urls(N)) |->
                   NewTask("get_path", [file_name |-> <<>>, url |-> img_urls(N)[j]])]
    /\ pc' = "pdf_paths"
    /\ UNCHANGED <<page, discoveries, env, TOTAL_WORKERS, op, url, _chapters, _content,
                   _raw_content, chapter, k, ebook, timg, pdf, txt, fs, err,
                   ret, last>>

\* get_path starts on a worker: the image is requested.
PathStart(t) ==
    /\ CanStart(t, default_max_workers)
    /\ tasks[t].fn = "get_path"
    /\ tasks' = [tasks EXCEPT ![t].st = "fetch"]
    /\ UNCHANGED <<page, discoveries, env, TOTAL_WORKERS, pc, op, url, _chapters, _content,
                   _raw_content, chapter, k, ebook, timg, pdf, txt, fs, err,
                   ret, last>>

\* get_path ends: the body is written to a new file, which is recorded.
PathReturn(t) ==
    /\ t \in 1..Len(tasks)
    /\ tasks[t].fn = "get_path"
    /\ tasks[t].st = "fetch"
    /\ \E res \in ImageResponses(tasks[t].arg.url) :
         fs' = fs @@ (TempPath(t) :> get_path_file(res))
    /\ timg' = get_path_timg(timg, tasks[t].arg.url, t)
    /\ tasks' = [tasks EXCEPT ![t].st = "done"]
    /\ UNCHANGED <<page, discoveries, env, TOTAL_WORKERS, pc, op, url, _chapters, _content,
                   _raw_content, chapter, k, ebook, pdf, txt, err, ret, last>>

\* get_paths returns; BookPDF is built; set_cover stages the cover and draws
\* it; add_toc adds the contents page.
PdfCover ==
    /\ pc = "pdf_paths"
    /\ executor_exit
    /\ tasks' = leave_with(tasks)
    /\ timg' = get_path_timg(timg, CoverUrl, 0)
    /\ \E res \in ImageResponses(CoverUrl) :
         LET files == fs @@ (TempPath(0) :> get_path_file(res))
         IN  /\ fs' = files
             /\ IF image_ok(files, TempPath(0))
                THEN /\ pdf' = <<[kind |-> "cover", items |-> <<files[TempPath(0)].content>>],
                                 [kind |-> "toc",
                                  items |-> [i \in 1..N |-> _chapters.val[i].title]]>>
                     /\ pc' = "pdf_item"
                     /\ k' = 1
                     /\ err' = err
                ELSE /\ pc' = "raised"
                     /\ err' = "ImageError"
                     /\ UNCHANGED <<pdf, k>>
    /\ UNCHANGED <<page, discoveries, env, TOTAL_WORKERS, op, url, _chapters, _content,
                   _raw_content, chapter, ebook, txt, ret, last>>

\* BookPDF.add_item: what one segment puts on the page.
pdf_item(files, path_map, c) ==
    IF ~c.is_img THEN [kind |-> "text", val |-> c.value]
    ELSE [kind |-> "image", val |-> files[path_map[c.value]].content]

\* The segment can be drawn: its image was staged and holds an image.
pdf_item_exc(files, path_map, c) ==
    IF ~c.is_img THEN "None"
    ELSE IF c.value \notin DOMAIN path_map THEN "KeyError"
    ELSE IF ~image_ok(files, path_map[c.value]) THEN "ImageError"
    ELSE "None"

\* pdf.add_item(chapter.title, chapter.content) for the next chapter.
PdfItem ==
    /\ pc = "pdf_item"
    /\ k <= N
    /\ LET cs == _content[k].val
           bad == {i \in 1..Len(cs) : pdf_item_exc(fs, timg.path_map, cs[i]) # "None"}
       IN  IF bad # {}
           THEN /\ pc' = "raised"
                /\ err' = pdf_item_exc(fs, timg.path_map,
                                       cs[CHOOSE i \in bad : \A j \in bad : i <= j])
                /\ UNCHANGED <<pdf, k>>
           ELSE /\ pdf' = Append(pdf, [kind |-> _chapters.val[k].title,
                                       items |-> [i \in 1..Len(cs) |->
                                                    pdf_item(fs, timg.path_map, cs[i])]])
                /\ k' = k + 1
                /\ UNCHANGED <<pc, err>>
    /\ UNCHANGED <<page, discoveries, env, TOTAL_WORKERS, op, url, _chapters, _content,
                   _raw_content, chapter, tasks, ebook, timg, txt, fs, ret, last>>

\* BookPDF.save: get_location, output, cleanup, in this order.
PdfSave ==
    /\ pc = "pdf_item"
    /\ k > N
    /\ \E e \in BOOLEAN :
         LET files == LookAt(fs, filename(op.loc, "pdf"), e)
             r == get_location(op.loc, "pdf", op.overwrite, files)
         IN  IF r.exc # "None"
             THEN /\ pc' = "raised"
                  /\ err' = r.exc
                  /\ fs' = files
                  /\ UNCHANGED <<timg, ret>>
             ELSE /\ fs' = cleanup([files EXCEPT ![r.loc] = [kind |-> "pdf", pages |-> pdf]], timg)
                  /\ timg' = EmptyTimg
                  /\ pc' = "returned"
                  /\ ret' = Some(r.loc)
                  /\ err' = err
    /\ UNCHANGED <<page, discoveries, env, TOTAL_WORKERS, op, url, _chapters, _content,
                   _raw_content, chapter, tasks, k, ebook, pdf, txt, last>>

\* No pool ever holds more items than this: two images a chapter.
MaxTasks == 2 * MaxChapters

Next ==
    \/ GetBookByUrl
    \/ FromJson
    \/ Call
    \/ Save
    \/ BatchEnter
    \/ BatchSubmit
    \/ BatchReturn
    \/ \E t \in 1..MaxTasks : LambdaStart(t) \/ LambdaCheck(t) \/ LambdaReturn(t)
    \/ TxtChapter
    \/ TxtSave
    \/ HtmlLocation
    \/ HtmlTxtLocation
    \/ HtmlWrite
    \/ EpubCover
    \/ EpubChapter
    \/ \E t \in 1..MaxTasks : ImgStart(t) \/ ImgReturn(t)
    \/ EpubAddChapter
    \/ EpubSave
    \/ PdfCollect
    \/ PdfGetPaths
    \/ \E t \in 1..MaxTasks : PathStart(t) \/ PathReturn(t)
    \/ PdfCover
    \/ PdfItem
    \/ PdfSave

Spec == Init /\ [][Next]_vars

\* ------------------------------------------------------- termination alone
\* The caller starts one operation with no destination given: on a fresh
\* working directory, or with overwrite off on one that holds the output of
\* an earlier run.
CallLive ==
    /\ pc = "idle"
    /\ \E name \in Formats \cup Batches, e \in BOOLEAN :
         /\ name \in Batches => ~e
         /\ Create(name, LocNone, ~e, e)

NextLive ==
    \/ GetBookByUrl
    \/ FromJson
    \/ CallLive
    \/ BatchEnter
    \/ BatchSubmit
    \/ BatchReturn
    \/ \E t \in 1..MaxTasks : LambdaStart(t) \/ LambdaCheck(t) \/ LambdaReturn(t)
    \/ TxtChapter
    \/ TxtSave
    \/ HtmlLocation
    \/ HtmlTxtLocation
    \/ HtmlWrite
    \/ EpubCover
    \/ EpubChapter
    \/ \E t \in 1..MaxTasks : ImgStart(t) \/ ImgReturn(t)
    \/ EpubAddChapter
    \/ EpubSave
    \/ PdfCollect
    \/ PdfGetPaths
    \/ \E t \in 1..MaxTasks : PathStart(t) \/ PathReturn(t)
    \/ PdfCover
    \/ PdfItem
    \/ PdfSave

\* The program under a scheduler that does not stop while a thread can take
\* a step: the caller or a worker runs, and a request that was sent is
\* answered.
SpecLive == Init /\ [][NextLive]_vars /\ WF_vars(NextLive)

\* ------------------------------------------------ chapter discovery alone
\* Any table of contents of up to MaxChapters entries: relative or absolute
\* hrefs, titles clean or padded and broken over lines, parts in any order.
TocEntries ==
    {[href |-> Url(o, p), text |-> Text(p, d, d)] :
        o \in {"", main_url}, p \in 1..MaxChapters, d \in BOOLEAN}
RECURSIVE SeqsUpTo(_, _)
SeqsUpTo(S, n) ==
    IF n = 0 THEN {<<>>}
    ELSE SeqsUpTo(S, n - 1) \cup
         {Append(q, x) : q \in {r \in SeqsUpTo(S, n - 1) : Len(r) = n - 1}, x \in S}
TocPages == {[toc |-> None]} \cup {[toc |-> Some(t)] : t \in SeqsUpTo(TocEntries, MaxChapters)}

InitToc ==
    /\ page \in TocPages
    /\ env = None
    /\ InitRest

\* Book.chapters read by the caller: get_chapters on first access.
ReadChapters ==
    /\ pc = "idle"
    /\ discoveries' = IF chapters_cached THEN discoveries ELSE discoveries + 1
    /\ IF chapters_cached
       THEN /\ pc' = "returned"
            /\ UNCHANGED <<_chapters, _content, _raw_content, err>>
       ELSE LET r == get_chapters(page)
            IN  IF r.exc # "None"
                THEN /\ pc' = "raised"
                     /\ err' = r.exc
                     /\ UNCHANGED <<_chapters, _content, _raw_content>>
                ELSE /\ pc' = "returned"
                     /\ _chapters' = Some(r.val)
                     /\ _content' = [i \in 1..Len(r.val) |-> None]
                     /\ _raw_content' = [i \in 1..Len(r.val) |-> None]
                     /\ err' = err
    /\ ret' = IF _chapters'.some THEN Some("chapters") ELSE ret
    /\ UNCHANGED <<page, env, TOTAL_WORKERS, op, url, chapter, tasks, k, ebook,
                   timg, pdf, txt, fs, last>>

NextToc ==
    \/ GetBookByUrl
    \/ FromJson
    \/ ReadChapters

SpecToc == InitToc /\ [][NextToc]_vars

\* ------------------------------------------------ content resolution alone
\* Any fragment of up to MaxNodes top-level nodes, served with success or not.
Nodes ==
    {Node("p", "t"), Node("string", "s"), Node("noimg", "")}
        \cup {Node("image", u) : u \in ImgUrls}
Responses ==
    {Response(st, f) : st \in {200, 404}, f \in SeqsUpTo(Nodes, MaxNodes)}

\* A book built from a listing record whose one chapter is known and unresolved.
InitParse ==
    /\ page = [toc |-> Some(RunToc(1))]
    /\ env = None
    /\ TOTAL_WORKERS = None
    /\ pc = "idle"
    /\ op = [name |-> "None", loc |-> LocNone, overwrite |-> TRUE, existed |-> FALSE]
    /\ url = WorkUrl
    /\ _chapters = Some(get_chapters(page).val)
    /\ _content = <<None>>
    /\ _raw_content = <<None>>
    /\ chapter = 0
    /\ tasks = NoTasks
    /\ k = 0
    /\ ebook = EmptyBook
    /\ timg = EmptyTimg
    /\ pdf = <<>>
    /\ txt = <<>>
    /\ fs = <<>>
    /\ err = "None"
    /\ ret = None
    /\ last = NoLast
    /\ discoveries = 0

\* Chapter.content read by the caller while the endpoint answers res.
ReadContent ==
    /\ pc = "idle"
    /\ ~_content[1].some
    /\ \E res \in Responses :
         LET r == Chapter_content(_content[1], res)
         IN  /\ last' = [res |-> res, out |-> parse_content(res)]
             /\ _content' = [_content EXCEPT ![1] = r.cache]
             /\ err' = r.exc
             /\ pc' = IF r.exc # "None" THEN "raised" ELSE "returned"
             /\ ret' = IF r.exc # "None" THEN ret ELSE r.cache
    /\ UNCHANGED <<page, discoveries, env, TOTAL_WORKERS, op, url, _chapters, _raw_content,
                   chapter, tasks, k, ebook, timg, pdf, txt, fs>>

\* Chapter.raw_content read by the caller while the endpoint answers res.
ReadRawContent ==
    /\ pc = "idle"
    /\ ~_raw_content[1].some
    /\ \E res \in Responses :
         /\ _raw_content' = [_raw_content EXCEPT ![1] = Chapter_raw_content(@, res)]
         /\ ret' = Chapter_raw_content(_raw_content[1], res)
         /\ pc' = "returned"
    /\ UNCHANGED <<page, discoveries, env, TOTAL_WORKERS, op, url, _chapters, _content,
                   chapter, tasks, k, ebook, timg, pdf, txt, fs, err, last>>

\* parse_content_again keeping a filled cache, as Chapter.content does.
\* C21's property fails on it.
parse_content_again_cached(cache, res) == Chapter_content(cache, res)

\* Chapter.parse_content_again on the response: [exc, cache].  The cache is
\* not read.
parse_content_again(cache, res) ==
    LET r == parse_content(res)
    IN  IF r.exc # "None" THEN [exc |-> r.exc, cache |-> cache]
        ELSE [exc |-> "None", cache |-> Some(r.val)]

\* chapter.parse_content_again(), first half: the storytext request is sent.
\* A behaviour of SpecParse reads the raw cache once or works on the content
\* cache.
ParseContentAgainSend ==
    /\ pc \in {"idle", "returned"}
    /\ ~_raw_content[1].some
    /\ pc' = "again_fetch"
    /\ op' = [op EXCEPT !.name = "parse_content_again"]
    /\ UNCHANGED <<page, discoveries, env, TOTAL_WORKERS, url, _chapters, _content,
                   _raw_content, chapter, tasks, k, ebook, timg, pdf, txt, fs,
                   err, ret, last>>

\* chapter.parse_content_again(), second half: the response arrives, is
\* parsed, stored and returned; an exception of the parser reaches the caller
\* before the assignment.
ParseContentAgainWith(res) ==
    /\ pc = "again_fetch"
    /\ LET r == parse_content_again(_content[1], res)
       IN  /\ last' = [res |-> res, out |-> parse_content(res)]
           /\ _content' = [_content EXCEPT ![1] = r.cache]
           /\ err' = r.exc
           /\ pc' = IF r.exc # "None" THEN "raised" ELSE "returned"
           /\ ret' = IF r.exc # "None" THEN ret ELSE r.cache
    /\ UNCHANGED <<page, discoveries, env, TOTAL_WORKERS, op, url, _chapters, _raw_content,
                   chapter, tasks, k, ebook, timg, pdf, txt, fs>>

ParseContentAgain == \E res \in Responses : ParseContentAgainWith(res)

NextParse ==
    \/ ReadContent
    \/ ReadRawContent
    \/ ParseContentAgainSend
    \/ ParseContentAgain

SpecParse == InitParse /\ [][NextParse]_vars

\* ============================================================ properties
\* The operation has come back to its caller, with a value or an exception.
Ended == pc \in {"returned", "raised"}
\* The destination the running assembly resolves.
Dest == filename(op.loc, Ext(op.name))
\* The staged image files present in the file system.
TempFiles == {p \in DOMAIN fs : p.dir = "temp_imgs" /\ fs[p] # Absent}
\* The caller positions inside a with block of a pool.
PoolPcs == {"submit", "epub_images", "pdf_paths"}
\* The storytext answers that report a failure.
FailedResponses == {r \in RunResponses : r.status_code # 200}

\* ------------------------------------------------------------------- C1
\* C1, as the specification states it: for every format, when the destination
\* exists already and overwrite is false, the assembly call ends in
\* FileExistsError and the existing file is unchanged.
C1_EndsInFileExistsError ==
    (Ended /\ op.name \in Formats /\ op.existed /\ ~op.overwrite)
        => (pc = "raised" /\ err = "FileExistsError" /\ fs[Dest] = OldFile)

\* C1, amended: for every format, when the destination exists already and
\* overwrite is false, the call never finalizes and the existing file is
\* unchanged; the call ends in FileExistsError unless chapter discovery,
\* chapter resolution or page composition has failed before the save step
\* (create_webpage looks first, and always ends in FileExistsError).
C1_ExistingFileKept ==
    (Ended /\ op.name \in Formats /\ op.existed /\ ~op.overwrite)
        => /\ pc = "raised"
           /\ fs[Dest] = OldFile
           /\ \/ err = "FileExistsError"
              \/ /\ op.name # "create_webpage"
                 /\ err \in {"AttributeError", "TypeError", "ImageError"}

\* A two-chapter epub run that reached its save step and was refused.
C1_Witness ==
    /\ pc = "raised"
    /\ err = "FileExistsError"
    /\ op.name = "create_epub"
    /\ op.existed /\ ~op.overwrite
    /\ _chapters.some /\ N = 2 /\ k > N
    /\ fs[Dest] = OldFile

\* ------------------------------------------------------------------- C2
\* C2: once a pdf run has come back to its caller, finalized or failed, no
\* staged image file remains in the local store.
C2_NoStagedImageAfterPdf ==
    (Ended /\ op.name = "create_pdf") => TempFiles = {}

\* ------------------------------------------------------------------- C3
\* The staged files holding the body of a failed image fetch.
FailedStaged == {p \in TempFiles : fs[p].content.kind = "error"}
\* The placeholder items of the package, the cover included.
PlaceholderItems ==
    {x \in BagToSet(ebook.items) : x.content = PLACEHOLDER_IMG}
PlaceholderCount ==
    (IF PlaceholderItems = {} THEN 0
     ELSE BagCardinality([x \in PlaceholderItems |-> CopiesIn(x, ebook.items)]))
    + (IF ebook.cover = Some(PLACEHOLDER_IMG) THEN 1 ELSE 0)
\* The run failed for a reason that is not an image: discovery, resolution
\* or an existing destination.
OtherFailure == err \in {"AttributeError", "TypeError", "FileExistsError"}

\* C3: for epub and for pdf, when exactly one image fetch of the run fails (a
\* chapter image, everything else in order), the run still finalizes, the
\* artifact holds every chapter, and the failed image's slot holds the
\* placeholder.
C3_OneFailedImageStillFinalizes ==
    /\ (/\ Ended /\ op.name = "create_pdf" /\ ~OtherFailure
        /\ Cardinality(FailedStaged) = 1
        /\ \A p \in FailedStaged : p.uuid > 0)
          => /\ pc = "returned"
             /\ Len(fs[ret.val].pages) = N + 2
             /\ \A i \in 1..N : \A j \in 1..Len(_content[i].val) :
                  _content[i].val[j].is_img =>
                      fs[ret.val].pages[i + 2].items[j].val
                          \in {ImageBytes(_content[i].val[j].value), PLACEHOLDER_IMG}
    /\ (/\ Ended /\ op.name = "create_epub" /\ ~OtherFailure
        /\ PlaceholderCount = 1)
          => /\ pc = "returned"
             /\ Len(fs[ret.val].book.chapters) = N

\* ------------------------------------------------------------------- C4
\* The package holds exactly one item of this name, and it holds the bytes
\* fetched from u or the placeholder.
ExactlyOneItem(b, name, u) ==
    \E x \in BagToSet(b.items) :
        /\ x.file_name = name
        /\ CopiesIn(x, b.items) = 1
        /\ \A y \in BagToSet(b.items) : y.file_name = name => y = x
        /\ x.content \in {ImageBytes(u), PLACEHOLDER_IMG}

\* C4: a finalized epub holds exactly one content document per chapter, and
\* for every rewritten image reference "<number>_<index>.jpg" in a document
\* exactly one embedded item of that name, holding the bytes fetched for that
\* image or the placeholder.
C4_EpubPackageConsistent ==
    (pc = "returned" /\ op.name = "create_epub") =>
        LET b == fs[ret.val].book
        IN  /\ Len(b.chapters) = N
            /\ \A i \in 1..N : b.chapters[i].file_name = _chapters.val[i].number
            /\ \A i, j \in 1..N : i # j => b.chapters[i].file_name # b.chapters[j].file_name
            /\ \A i \in 1..N :
                 LET tags == SelectSeq(_raw_content[i].val, IsTag)
                 IN  /\ Len(b.chapters[i].content) = Len(tags)
                     /\ \A j \in 1..Len(tags) :
                          b.chapters[i].content[j].kind = "image" =>
                              ExactlyOneItem(b, b.chapters[i].content[j].val, tags[j].val)

\* A finalized two-chapter epub with a fetched image and a placeholder.
C4_Witness ==
    /\ pc = "returned"
    /\ op.name = "create_epub"
    /\ N = 2
    /\ \E x, y \in BagToSet(fs[ret.val].book.items) :
         x.content = PLACEHOLDER_IMG /\ y.content.kind = "image"

\* ------------------------------------------------------------------- C5
\* A step of a worker of the chapter batch or of the epub image batch.
BatchWorkerStep ==
    \E t \in 1..MaxTasks :
        LambdaStart(t) \/ LambdaCheck(t) \/ LambdaReturn(t) \/ ImgStart(t) \/ ImgReturn(t)

\* C5: in the chapter batch and in the epub image batch, an item that failed
\* never keeps another item from running to completion (while an item is
\* unfinished some worker can take a step, whatever has failed before), and
\* never makes the batch call fail (a batch call raises only when chapter
\* discovery does, before any item exists).
C5_FailureIsolated ==
    /\ (pc \in {"submit", "epub_images"} /\ ~executor_exit) => ENABLED BatchWorkerStep
    /\ (pc = "raised" /\ op.name \in Batches) => (~_chapters.some /\ tasks = NoTasks)

\* An item has failed and an item submitted after it has completed.
C5_Witness ==
    /\ pc = "submit"
    /\ \E t1, t2 \in 1..Len(tasks) :
         t1 < t2 /\ tasks[t1].st = "raised" /\ tasks[t2].st = "done"

\* ------------------------------------------------------------------- C6
\* C6: whenever the caller is outside the with block of a pool (the batch
\* call has returned), every item submitted to the pool has finished: none is
\* queued, running or waiting for a response, so none writes afterwards.
C6_NoItemOutlivesBatch ==
    pc \notin PoolPcs => \A t \in 1..Len(tasks) : Finished(t)

\* A raw-content batch over two chapters has returned, items having written.
C6_Witness ==
    /\ pc = "returned"
    /\ op.name = "chapters_with_raw_content"
    /\ N = 2
    /\ \E i \in 1..N : _raw_content[i].some

\* ------------------------------------------------------------------- C7
\* C7: under every interleaving, when chapters_with_content (respectively
\* chapters_with_raw_content) returns, the corresponding cache of every
\* chapter is populated.  Stated for the batches none of whose items raised:
\* once every chapter's item is submitted and done, the call is returning,
\* and then and afterwards no cache is empty.
C7_EveryCachePopulated ==
    (/\ op.name \in Batches
     /\ pc = "submit"
     /\ Len(tasks) = N
     /\ \A t \in 1..Len(tasks) : tasks[t].st = "done")
        => \A i \in 1..N : Cache(BatchKind)[i].some

\* ------------------------------------------------------------------- C8
\* The number of segments of the first n chapters.
RECURSIVE SegCount(_)
SegCount(n) == IF n = 0 THEN 0 ELSE SegCount(n - 1) + Len(_content[n].val)

\* A resolution step that gets a failure answer stores the empty list and
\* raises nothing; in the assemblers the chapter goes on to be emitted.
C8_Step ==
    \A res \in FailedResponses :
        /\ \A t \in 1..MaxTasks :
             LambdaReturnWith(t, res) =>
                 /\ tasks'[t].st = "done"
                 /\ IF BatchKind = "raw"
                    THEN _raw_content'[tasks[t].target] = Some(<<>>)
                    ELSE _content'[tasks[t].target] = Some(<<>>)
        /\ (TxtChapterWith(res) /\ ~_content[k].some) =>
               /\ pc' = pc
               /\ _content'[k] = Some(<<>>)
               /\ txt' = Append(txt, [kind |-> "title", val |-> _chapters.val[k].title])
        /\ (PdfCollectWith(res) /\ ~_content[k].some) =>
               /\ pc' = pc
               /\ _content'[k] = Some(<<>>)
        /\ (EpubChapterWith(res) /\ ~_raw_content[k].some) =>
               /\ pc' = "epub_images"
               /\ _raw_content'[k] = Some(<<>>)

\* Every finalized artifact holds every chapter's title, in order, and
\* nothing under the title of a chapter whose cache is the empty list.
C8_Emitted ==
    (pc = "returned" /\ op.name \in Formats) =>
        LET f == fs[ret.val]
            titles == [i \in 1..N |-> _chapters.val[i].title]
        IN  CASE op.name = "create_epub" ->
                   /\ [i \in 1..Len(f.book.chapters) |-> f.book.chapters[i].title] = titles
                   /\ \A i \in 1..N :
                        _raw_content[i] = Some(<<>>) => f.book.chapters[i].content = <<>>
              [] op.name = "create_pdf" ->
                   /\ [i \in 1..(Len(f.pages) - 2) |-> f.pages[i + 2].kind] = titles
                   /\ \A i \in 1..N :
                        _content[i] = Some(<<>>) => f.pages[i + 2].items = <<>>
              [] OTHER ->
                   LET heads == SelectSeq(f.body, LAMBDA l : l.kind = "title")
                   IN  /\ [i \in 1..Len(heads) |-> heads[i].val] = titles
                       /\ Len(f.body) = 1 + N + SegCount(N)

\* C8: when the storytext fetch of a chapter returns a non-success status,
\* resolving the chapter yields the empty segment list and no error, the empty
\* list is stored in the chapter's cache, and assembly still emits the chapter:
\* its title with no body.
C8_FailedFetchIsEmptyChapter == [][C8_Step]_vars /\ []C8_Emitted

\* A finalized text file of two chapters, the first resolved from a failure
\* answer, the second with a body.
C8_Witness ==
    /\ pc = "returned"
    /\ op.name = "create_txt"
    /\ N = 2
    /\ _content[1] = Some(<<>>)
    /\ _content[2].val # <<>>
    /\ fs[ret.val].body[2].kind = "title"
    /\ fs[ret.val].body[3].kind = "title"

\* ------------------------------------------------------------------- C9
\* C9 (under SpecParse): for a fetched fragment of K top-level nodes, M of
\* them carrying the image marker, parse_content returns exactly K segments,
\* exactly M of them with is_img, the i-th segment for the i-th node.  Stated
\* for the fragments whose top-level nodes are all elements.
C9_OneSegmentPerNode ==
    (/\ last # NoLast
     /\ last.res.status_code = 200
     /\ \A i \in 1..Len(last.res.content) : IsTag(last.res.content[i])) =>
        LET nodes == last.res.content
            marked == {i \in 1..Len(nodes) : HasImageMarker(nodes[i])}
        IN  /\ last.out.exc = "None"
            /\ Len(last.out.val) = Len(nodes)
            /\ {i \in 1..Len(nodes) : last.out.val[i].is_img} = marked
            /\ \A i \in 1..Len(nodes) :
                 nodes[i].kind \in {"p", "image"} => last.out.val[i].value = nodes[i].val

\* ------------------------------------------------------------------ C10
\* C10 (under SpecToc): the chapter numbers are contiguous and strictly
\* increasing in the order of the table of contents, and the i-th chapter is
\* the i-th entry (its locator made absolute, its title), whether the list
\* came from get_book_by_url or from the lazy get_chapters.
C10_NumbersFollowToc ==
    _chapters.some =>
        LET cs == _chapters.val
            lis == page.toc.val
        IN  /\ page.toc.some
            /\ Len(cs) = Len(lis)
            /\ \A i \in 1..(Len(cs) - 1) : cs[i + 1].number = cs[i].number + 1
            /\ \A i \in 1..Len(cs) :
                 /\ cs[i].url.path = lis[i].href.path
                 /\ cs[i].url.origin = main_url
                 /\ cs[i].title.t = lis[i].text.t

\* The lazy path has numbered a table of contents of MaxChapters entries that
\* is not in part order.
C10_Witness ==
    /\ pc = "returned"
    /\ _chapters.some
    /\ Len(_chapters.val) >= 2
    /\ _chapters.val[1].number = 0
    /\ _chapters.val[1].url.path > _chapters.val[2].url.path

\* ------------------------------------------------------------------ C11
\* C11 (under SpecToc): for the same landing page, the chapter list of a
\* Work built by get_book_by_url and the chapter list a Work built by
\* from_json gets from get_chapters are the same: locators, titles and the
\* sequence number of each chapter.
C11_SameChapterList ==
    _chapters.some =>
        /\ _chapters.val = get_book_by_url(WorkUrl, page).chapters
        /\ _chapters.val = get_chapters(page).val

\* ------------------------------------------------------------------ C12
\* A step of chapter discovery on a landing page without table of contents
\* raises, returns nothing and leaves Book._chapters None.
C12_Step ==
    (~page.toc.some /\ (GetBookByUrl \/ ReadChapters)) =>
        /\ pc' = "raised"
        /\ err' \in {"Exception", "AttributeError"}
        /\ ret' = None
        /\ _chapters' = None

\* C12 (under SpecToc): when the landing page has no table of contents,
\* chapter discovery (get_book_by_url, and Book.chapters through get_chapters)
\* ends in an error surfaced to the caller, produces no chapter list, and
\* leaves the chapter cache unset: no empty list is ever recorded as resolved.
C12_NoTocIsAnError ==
    [][C12_Step]_vars /\ [](~page.toc.some => (~_chapters.some /\ pc # "returned"))

\* Book.chapters of a from_json Work has raised on a page without table of
\* contents.
C12_Witness ==
    /\ ~page.toc.some
    /\ pc = "raised"
    /\ err = "AttributeError"
    /\ ~_chapters.some

\* ------------------------------------------------------------------ C13
\* The sequence number of the chapter with this title.
NumberOf(title) == (CHOOSE c \in Range(_chapters.val) : c.title = title).number

\* The sequence numbers of the chapters of a finalized artifact, in the order
\* in which the artifact holds them.
EmittedNumbers(f) ==
    CASE op.name = "create_epub" ->
           [j \in 1..Len(f.book.chapters) |-> f.book.chapters[j].file_name]
      [] op.name = "create_pdf" ->
           [j \in 1..(Len(f.pages) - 2) |-> NumberOf(f.pages[j + 2].kind)]
      [] OTHER ->
           LET heads == SelectSeq(f.body, LAMBDA l : l.kind = "title")
           IN  [j \in 1..Len(heads) |-> NumberOf(heads[j].val)]

\* C13: in every format the chapters appear in the output in increasing
\* sequence-number order, each chapter once, whatever the order in which the
\* concurrent chapter resolutions completed.
C13_OutputInNumberOrder ==
    (pc = "returned" /\ op.name \in Formats) =>
        LET nums == EmittedNumbers(fs[ret.val])
        IN  /\ Len(nums) = N
            /\ \A j \in 1..(Len(nums) - 1) : nums[j] < nums[j + 1]
            /\ Range(nums) = {_chapters.val[i].number : i \in 1..N}

\* A finalized pdf of two chapters, holding them in number order, for a table
\* of contents that does not list the parts in part order.
C13_Witness ==
    /\ pc = "returned"
    /\ op.name = "create_pdf"
    /\ N = 2
    /\ EmittedNumbers(fs[ret.val]) = <<_chapters.val[1].number, _chapters.val[2].number>>
    /\ _chapters.val[1].url.path > _chapters.val[2].url.path

\* ------------------------------------------------------------------ C14
\* The lines a flat text holds for the first n chapters: the header, and for
\* each chapter its title and one line per segment, an image segment as the
\* marker with its source locator, a text segment as its text.
RECURSIVE FlatText(_)
FlatText(n) ==
    IF n = 0 THEN <<TxtHeader>>
    ELSE FlatText(n - 1)
         \o <<[kind |-> "title", val |-> _chapters.val[n].title]>>
         \o [j \in 1..Len(_content[n].val) |->
               IF _content[n].val[j].is_img
               THEN [kind |-> "IMAGE", val |-> _content[n].val[j].value]
               ELSE [kind |-> "text", val |-> _content[n].val[j].value]]

\* C14: in flat-text assembly every image segment of every chapter is
\* rendered, at its position among the chapter's segments, as a textual marker
\* holding the segment's source locator, every text segment as its text, and
\* the output holds no fetched image data.
C14_FlatTextMarksImages ==
    (pc = "returned" /\ op.name = "create_txt") =>
        /\ fs[ret.val].kind = "txt"
        /\ fs[ret.val].body = FlatText(N)
        /\ \A j \in 1..Len(fs[ret.val].body) :
             /\ fs[ret.val].body[j].kind \in {"header", "title", "text", "IMAGE"}
             /\ fs[ret.val].body[j].kind = "IMAGE" => fs[ret.val].body[j].val \in ImgUrls

\* A finalized flat text whose second chapter has image segments.
C14_Witness ==
    /\ pc = "returned"
    /\ op.name = "create_txt"
    /\ N = 2
    /\ \E j \in 1..Len(_content[2].val) : _content[2].val[j].is_img
    /\ \E j \in 1..Len(fs[ret.val].body) : fs[ret.val].body[j].kind = "IMAGE"

\* ------------------------------------------------------------------ C15
\* A step that requests, or receives, an image or the cover.
AssetFetch ==
    \/ EpubCover
    \/ PdfCover
    \/ \E t \in 1..MaxTasks : ImgStart(t) \/ ImgReturn(t) \/ PathStart(t) \/ PathReturn(t)

\* C15: a flat-text or webpage run issues no asset fetch: none of its steps
\* requests an image or the cover, no image is ever staged or packaged, and
\* its only requests are the landing page and the chapter fragments.
C15_NoAssetFetchInText ==
    /\ [][op.name \in {"create_txt", "create_webpage"} => ~AssetFetch]_vars
    /\ [](op.name \in {"create_txt", "create_webpage"} =>
            /\ ebook = EmptyBook
            /\ timg = EmptyTimg
            /\ TempFiles = {}
            /\ \A t \in 1..Len(tasks) : tasks[t].fn = "lambda")

\* A finalized webpage of two chapters with image segments.
C15_Witness ==
    /\ pc = "returned"
    /\ op.name = "create_webpage"
    /\ N = 2
    /\ \A i \in 1..N : \E j \in 1..Len(_content[i].val) : _content[i].val[j].is_img

\* ------------------------------------------------------------------ C16
\* C16: every finalized assembly run, in every format and for every kind of
\* destination, creates or modifies exactly one file that outlives the run,
\* the destination: every other file the run met is as it was, and no other
\* file is left behind (directories aside).
C16_OnlyDestinationWritten ==
    (pc = "returned" /\ op.name \in Formats) =>
        /\ ret.val = Dest
        /\ fs[Dest].kind \notin {"absent", "old"}
        /\ \A p \in DOMAIN fs \ {Dest} : fs[p].kind \in {"absent", "old", "dir"}

\* ------------------------------------------------------------------ C17
\* A call of Book.save with a target that is no format tag, has no supported
\* extension and is no directory raises ValueError and changes nothing else.
C17_Step ==
    \A ow \in BOOLEAN :
        SaveWith(SaveTarget("other", ""), ow, FALSE) =>
            /\ pc' = "raised"
            /\ err' = "ValueError"
            /\ UNCHANGED <<fs, _chapters, _content, _raw_content, tasks, ebook,
                           timg, pdf, txt, TOTAL_WORKERS>>

\* C17: Book.save with a target that is not a format tag, does not end in a
\* supported extension and is not an existing directory fails with ValueError
\* before any fetch is issued and before any file is written: nothing was
\* resolved, staged, packaged or looked at when the error reaches the caller.
C17_UnsupportedFormatFirst ==
    /\ [][C17_Step]_vars
    /\ [](err = "ValueError" =>
            /\ pc = "raised"
            /\ op.name = "save"
            /\ fs = <<>>
            /\ tasks = NoTasks
            /\ ebook = EmptyBook /\ timg = EmptyTimg
            /\ \A i \in 1..Len(_content) : ~_content[i].some /\ ~_raw_content[i].some)

\* Book.save has refused a target on a Work of two unresolved chapters.
C17_Witness ==
    /\ pc = "raised"
    /\ err = "ValueError"
    /\ op.name = "save"
    /\ _chapters.some /\ N = 2

\* ------------------------------------------------------------------ C18
\* The configured worker-pool size: WATTPAD_MAX_WORKERS, 10 when unset.
ConfiguredWorkers == IF env.some THEN env.val ELSE DEFAULT_WORKERS

\* C18: in every batch (chapter resolution, epub image download, pdf image
\* staging) the number of work items in flight at once never exceeds the
\* configured worker-pool size, 10 when nothing is configured.
C18_InFlightWithinPool ==
    Cardinality({t \in 1..Len(tasks) : InFlight(t)}) <= ConfiguredWorkers

\* -------------------------------------------- worker configuration alone
\* A process that builds Wattpad objects, with or without max_workers, and
\* runs chapter batches on one Work of MaxChapters chapters.
InitWorkers ==
    /\ page = [toc |-> Some(RunToc(MaxChapters))]
    /\ env = None
    /\ InitRest

\* Wattpad.__init__(**kw) between two operations: max_workers=w is written to
\* the environment; without the keyword the environment is left alone.
Wattpad_init ==
    /\ pc \in {"idle", "returned"}
    /\ \E kw \in {None} \cup {Some(w) : w \in 1..MaxWorkers} :
         env' = IF kw.some THEN kw ELSE env
    /\ pc' = "idle"
    /\ UNCHANGED <<page, discoveries, TOTAL_WORKERS, op, url, _chapters, _content,
                   _raw_content, chapter, tasks, k, ebook, timg, pdf, txt, fs,
                   err, ret, last>>

\* The caller reads book.chapters_with_content or chapters_with_raw_content.
CallBatch ==
    /\ pc = "idle"
    /\ \E name \in Batches : Create(name, LocNone, TRUE, FALSE)

NextWorkers ==
    \/ GetBookByUrl
    \/ FromJson
    \/ Wattpad_init
    \/ CallBatch
    \/ BatchEnter
    \/ BatchSubmit
    \/ BatchReturn
    \/ \E t \in 1..MaxTasks : LambdaStart(t) \/ LambdaCheck(t) \/ LambdaReturn(t)

SpecWorkers == InitWorkers /\ [][NextWorkers]_vars

\* ------------------------------------------------------------------ C19
\* C19 (under SpecWorkers): after a Wattpad object was constructed with
\* max_workers=k (the environment holds k), every batch started afterwards
\* runs on a pool of at most k workers and with at most k items in flight,
\* also when an earlier batch of the process ran with another worker count.
C19_PoolFollowsLatestConfig ==
    (pc = "submit" /\ env.some) =>
        /\ max_workers <= env.val
        /\ Cardinality({t \in 1..Len(tasks) : InFlight(t)}) <= env.val

\* ------------------------------------------------------------------ C20
\* C20 (under Spec, where parse_content_again is never called): once a
\* chapter's content is resolved (its cache is not None), no read of
\* Chapter.content sends a request for it, and the cached value stays as it
\* is, whatever the source answers later.
C20_ResolvedContentStable ==
    [][/\ \A i \in 1..Len(_content) :
            _content[i].some => _content'[i] = _content[i]
       /\ \A t \in 1..Len(tasks) :
            (/\ BatchKind = "content"
             /\ LambdaCheck(t)
             /\ _content[tasks[t].target].some) => tasks'[t].st # "fetch"]_vars

\* ------------------------------------------------------------------ C21
\* A call of parse_content_again sends its request without looking at the
\* cache, and a response that parses (last'.res is the response of the step)
\* replaces the cache, whatever it held, by the segments parsed from that
\* response, which are the value returned.
C21_Step ==
    /\ ParseContentAgainSend => pc' = "again_fetch" /\ _content' = _content
    /\ (/\ ParseContentAgainWith(last'.res)
        /\ parse_content(last'.res).exc = "None") =>
             /\ pc' = "returned"
             /\ _content'[1] = Some(parse_content(last'.res).val)
             /\ ret' = _content'[1]

\* C21 (under SpecParse): parse_content_again always issues a new fetch of
\* the content fragment, whether the chapter's cache is populated or not (the
\* call can begin in either case and its first step sends the request), and
\* replaces the cache by the newly resolved segment sequence, which is also
\* the value it returns.
C21_AgainBypassesCache ==
    /\ [][C21_Step]_vars
    /\ []((pc \in {"idle", "returned"} /\ ~_raw_content[1].some) =>
             ENABLED ParseContentAgainSend)
    /\ []((pc = "returned" /\ op.name = "parse_content_again") =>
             /\ _content[1] = Some(last.out.val)
             /\ ret = _content[1])

\* The request of parse_content_again is on its way while the cache holds
\* segments resolved earlier.
C21_Witness ==
    /\ pc = "again_fetch"
    /\ _content[1].some
    /\ Len(_content[1].val) = MaxNodes

\* ------------------------------------------------- repeated reads of a Work
\* One Work, built either way on any landing page of RunPages, read again
\* and again: Book.chapters, chapters_with_content, chapters_with_raw_content.
\* (The assemblers reach the chapter list through the two batch properties
\* only: save_books.py 110, 259, 292.)
InitReads ==
    /\ page \in RunPages
    /\ env = None
    /\ InitRest

\* The caller has the result, or has caught the exception of a read, and goes
\* on to use the Book (get_book_by_url's exception leaves no Book).
Again ==
    /\ pc \in {"returned", "raised"}
    /\ err # "Exception"
    /\ discoveries < MaxDiscoveries
    /\ pc' = "idle"
    /\ err' = "None"
    /\ ret' = None
    /\ UNCHANGED <<page, discoveries, env, TOTAL_WORKERS, op, url, _chapters,
                   _content, _raw_content, chapter, tasks, k, ebook, timg, pdf,
                   txt, fs, last>>

NextReads ==
    \/ GetBookByUrl
    \/ FromJson
    \/ ReadChapters
    \/ CallBatch
    \/ BatchEnter
    \/ BatchSubmit
    \/ BatchReturn
    \/ \E t \in 1..MaxTasks : LambdaStart(t) \/ LambdaCheck(t) \/ LambdaReturn(t)
    \/ Again

SpecReads == InitReads /\ [][NextReads]_vars

ReadReturned == pc = "returned" /\ ret = Some("chapters")

ChapterImgs(i) == epub_imgs(_chapters.val[i].number, find_all(_raw_content[i].val))
\* The packaged image belongs to the chapter at position i.
ItemOf(x, i) == x.file_name[1] = _chapters.val[i].number

\* The step that adds chapter k's document: every download submitted for
\* chapter k is done and has put its item into the package, and the pool
\* holds no other download.
C23_Step ==
    EpubAddChapter =>
        /\ Len(tasks) = Len(ChapterImgs(k))
        /\ \A t \in 1..Len(tasks) :
             /\ tasks[t].st = "done"
             /\ tasks[t].arg = ChapterImgs(k)[t]
             /\ \E x \in BagToSet(ebook.items) : x.file_name = tasks[t].arg.file_name
        /\ \A x \in BagToSet(ebook.items) : \E i \in 1..k : ItemOf(x, i)

\* C23: in e-book assembly, at the moment chapter k's content document is
\* added to the package, every image download submitted for chapter k has
\* finished, and no image download of a later chapter has started: the
\* downloads in the pool and the images in the package are those of the
\* chapters up to the one being worked on, and between two chapters only
\* those of the chapters whose documents are in.
C23_ImagesBeforeDocument ==
    /\ [][C23_Step]_vars
    /\ []((op.name = "create_epub" /\ pc \in {"epub_chapter", "epub_images"}) =>
            /\ Len(ebook.chapters) = k - 1
            /\ \A t \in 1..Len(tasks) :
                 tasks[t].st # "queued" => pc = "epub_images" /\ ItemOf(tasks[t].arg, k)
            /\ \A x \in BagToSet(ebook.items) :
                 \E i \in 1..N : ItemOf(x, i) /\ (i < k \/ (i = k /\ pc = "epub_images")))

\* The first chapter's document is in with its two images, and the second
\* chapter, which has images too, has not been worked on yet.
C23_Witness ==
    /\ op.name = "create_epub"
    /\ pc = "epub_chapter"
    /\ N = 2 /\ k = 2
    /\ Len(ebook.chapters) = 1
    /\ BagCardinality(ebook.items) = 2
    /\ _raw_content[2].some
    /\ Len(ChapterImgs(2)) = 2

\* ------------------------------------------------------------------ C24
\* Every image segment of every chapter has an entry in the staged-path map
\* that points to a file present in the staging directory.
AllSegmentsStaged ==
    \A i \in 1..N : \A j \in 1..Len(_content[i].val) :
        _content[i].val[j].is_img =>
            /\ _content[i].val[j].value \in DOMAIN timg.path_map
            /\ timg.path_map[_content[i].val[j].value] \in TempFiles

\* C24: in pdf assembly, when composition begins (get_paths is returning and
\* the cover page is next) and whenever a chapter page is composed, every
\* image segment of every chapter is resolved and has an entry in the
\* staged-path map pointing to an existing temporary file; composition never
\* looks up an image that was not staged (no KeyError).
C24_StagedBeforeComposition ==
    /\ (op.name = "create_pdf" /\ (pc = "pdf_item" \/ (pc = "pdf_paths" /\ executor_exit))) =>
           /\ \A i \in 1..N : _content[i].some
           /\ AllSegmentsStaged
    /\ err # "KeyError"

\* The pages of a two-chapter pdf are being composed, each chapter with its
\* images, the second chapter's page next.
C24_Witness ==
    /\ op.name = "create_pdf"
    /\ pc = "pdf_item"
    /\ N = 2 /\ k = 2
    /\ \A i \in 1..N : \E j \in 1..Len(_content[i].val) : _content[i].val[j].is_img
    /\ \E j \in 1..Len(pdf[3].items) : pdf[3].items[j].kind = "image"

\* ------------------------------------------------------------------ C25
\* The running operation embeds its images.
Embedding == op.name \in {"create_epub", "create_pdf"}
\* The chapter batch of the run has returned.
ChapterBatchReturned == pc \notin {"new", "idle", "epub_cover", "batch", "submit"}
\* A chapter document or a page has been composed.
ComposingBegun == ebook.chapters # <<>> \/ pdf # <<>>

\* C25, as the specification states it: in an epub or pdf run no asset fetch
\* (the cover included) is issued before chapter resolution has completed,
\* and none once composing has begun.
C25_PhasesInOrder ==
    [][(Embedding /\ AssetFetch) => (ChapterBatchReturned /\ ~ComposingBegun)]_vars

\* The asset fetches of an embedding run, each at its place in the code.
C25_Step ==
    /\ EpubCover =>
           /\ pc = "epub_cover" /\ pc' = "batch"
           /\ \A i \in 1..Len(_raw_content) : ~_raw_content[i].some
    /\ (\E t \in 1..MaxTasks : ImgStart(t) \/ ImgReturn(t)) =>
           /\ pc = "epub_images"
           /\ ebook.cover.some
           /\ Len(ebook.chapters) = k - 1
           /\ \A i \in 1..k : _raw_content[i].some
    /\ (\E t \in 1..MaxTasks : PathStart(t) \/ PathReturn(t)) =>
           /\ pc = "pdf_paths"
           /\ pdf = <<>>
           /\ \A i \in 1..N : _content[i].some
    /\ PdfCover =>
           /\ pdf = <<>>
           /\ \A t \in 1..Len(tasks) : Finished(t)
           /\ \A i \in 1..N : _content[i].some

\* C25, amended: an embedding run fetches no chapter image before its chapter
\* batch has returned, and finalizes last, no fetch in flight.  In between:
\* create_epub fetches the cover first, before chapter resolution, and then
\* alternates per chapter between downloading the chapter's images and adding
\* its document; create_pdf stages every chapter image before the first page
\* is composed, and fetches the cover in the step that composes the cover
\* page, before any chapter page.
C25_PhasesAsCoded ==
    /\ [][C25_Step]_vars
    /\ []((Embedding /\ ~ChapterBatchReturned) =>
            /\ \A t \in 1..Len(tasks) : tasks[t].fn = "lambda"
            /\ ~ComposingBegun
            /\ ebook.items = EmptyBag /\ timg = EmptyTimg
            /\ (op.name = "create_epub" /\ pc # "epub_cover") => ebook.cover.some)
    /\ []((Embedding /\ pc \in {"pdf_item", "returned"}) =>
            \A t \in 1..Len(tasks) : Finished(t))

\* An epub run downloads the images of its second chapter, the cover fetched
\* and the first chapter's document in the package.
C25_Witness ==
    /\ op.name = "create_epub"
    /\ pc = "epub_images"
    /\ k = 2
    /\ ebook.cover.some
    /\ Len(ebook.chapters) = 1
    /\ \E t \in 1..Len(tasks) : tasks[t].st = "fetch"

\* ------------------------------------------------------------------ C26
\* Two items read the content of the same chapter.
SameChapter(t1, t2) ==
    /\ t1 # t2
    /\ tasks[t1].fn = "lambda" /\ tasks[t2].fn = "lambda"
    /\ tasks[t1].target = tasks[t2].target
    /\ tasks[t1].target > 0

\* A read that finds the cache empty sends its request, and a response that
\* parses is written to the cache, whatever the other items are doing and
\* whatever the cache holds by then.
C26_Step ==
    \A t \in 1..MaxTasks :
        /\ (BatchKind = "content" /\ LambdaCheck(t) /\ ~_content[tasks[t].target].some) =>
               tasks'[t].st = "fetch"
        /\ \A res \in RunResponses :
             (/\ BatchKind = "content"
              /\ LambdaReturnWith(t, res)
              /\ parse_content(res).exc = "None") =>
                 _content'[tasks[t].target] = Some(parse_content(res).val)

\* C26: nothing excludes two concurrent first-time reads of the content of
\* the same unresolved chapter from each other: a read that has started can
\* always test the cache, also while another read of the same chapter waits
\* for its response, and a read that waits for its response can always
\* receive and store it; so there is an interleaving (the witness) in which
\* both find the cache empty, both fetch, and the cache is written twice.
C26_NoMutualExclusion ==
    /\ [][C26_Step]_vars
    /\ [](BatchKind = "content" =>
            \A t \in 1..Len(tasks) :
                /\ (tasks[t].fn = "lambda" /\ tasks[t].st = "running") => ENABLED LambdaCheck(t)
                /\ (tasks[t].fn = "lambda" /\ tasks[t].st = "fetch") => ENABLED LambdaReturn(t))

\* Two items read the same chapter and both found its cache empty: the first
\* has fetched and written, the second waits for its response, which it will
\* write over the first one's.
C26_Witness ==
    /\ op.name = "chapters_with_content"
    /\ \E t1, t2 \in 1..Len(tasks) :
         /\ SameChapter(t1, t2)
         /\ tasks[t1].st = "done"
         /\ tasks[t2].st = "fetch"
         /\ _content[tasks[t1].target].some

\* ------------------------------------------------------------------ C27
\* C27: within one chapters_with_content batch on a Work whose chapters are
\* all unresolved, under every interleaving each chapter's content fragment
\* is fetched at most once (and so its cache written at most once): no two
\* items of the batch wait for the fragment of the same chapter.
C27_OneFetchPerChapter ==
    op.name = "chapters_with_content" =>
        \A t1, t2 \in 1..Len(tasks) :
            SameChapter(t1, t2) => ~(tasks[t1].st = "fetch" /\ tasks[t2].st = "fetch")

\* ------------------------------------------------------------------ C28
\* C28 (under SpecToc): for every landing page with at least one entry in its
\* table of contents, the Book built by get_book_by_url(u) has url = u, so
\* that its locator, and the id taken from the locator's last path segment,
\* denote the work (path 0) and none of its parts.  Stated for every Book
\* that has its chapter list, however it was built.
C28_BookUrlIsWorkUrl ==
    (_chapters.some /\ N >= 1) => (url = WorkUrl /\ url.path = 0)

\* ------------------------------------------------------------------ C29
\* C29: an assembly call fails with FileExistsError only if its own
\* destination file exists and overwrite is false; in particular a webpage
\* assembly whose .html destination does not exist never fails with it.
C29_ExistsErrorOnlyForDestination ==
    (pc = "raised" /\ err = "FileExistsError" /\ op.name \in Formats) =>
        (exists(fs, Dest) /\ ~op.overwrite)

\* ------------------------------------------------------------------ C30
\* An operation was called on the Book.
Started == op.name # "None"
\* The caller is inside the chapter batch.
InBatch == pc \in {"batch", "submit"}

\* C30 (under SpecLive): when every request is answered and the threads are
\* scheduled fairly, every batch call eventually returns to its caller (or
\* raises, when chapter discovery does), and every assembly run eventually
\* ends: finalized with the path of its output, or failed with an error; for
\* every Work and every pool size from 1.
C30_EveryRunEnds ==
    /\ Started ~> Ended
    /\ InBatch ~> ~InBatch
    /\ []((pc = "returned" /\ op.name \in Formats) => (ret.some /\ exists(fs, ret.val)))
    /\ [](pc = "raised" => err # "None")

\* A pdf run of two chapters with images has ended on a pool of one worker.
C30_Witness ==
    /\ pc = "returned"
    /\ op.name = "create_pdf"
    /\ max_workers = 1
    /\ N = 2
    /\ \A i \in 1..N : \E j \in 1..Len(_content[i].val) : _content[i].val[j].is_img
====
